---- MODULE Spec2Model ----
(***************************************************************************)
(* Decision engines and focus scorers of the study-focus monitor.          *)
(*                                                                         *)
(* The repository ships two programs that never share a process:           *)
(*   "gui"  : src/src/gui.py, built on src/src/logic.py                    *)
(*            (ActivityEngine, FocusScorer, FocusAnalyzer), free-form      *)
(*            strings for states and categories;                           *)
(*   "main" : src/main.py, built on src/modules/decision_engine.py and     *)
(*            src/modules/focus_calculator.py (DecisionEngine,             *)
(*            FocusCalculator), enum-valued states and categories.         *)
(***************************************************************************)
EXTENDS Integers, Naturals, Sequences, FiniteSets, TLC

VARIABLES
    app,            \* which program runs: "gui" or "main"
    current_score,  \* FocusScorer.current_score
    window_size,    \* FocusCalculator: maxlen of score_history (configuration)
    score_history,  \* FocusCalculator.score_history, oldest first
    ret,            \* the last call: its name, arguments and returned values
    probe           \* one earlier determine_activity call, kept for comparison

VARIABLES
    feed            \* the pair every later update is fed with, once chosen

VARIABLES
    ear_frames_below_threshold, \* src/src FaceTracker: consecutive closed frames
    blink_counter,              \* src/modules FaceTracker: closures counted
    blink_timestamps,           \* src/modules FaceTracker: deque(maxlen = 20)
    eye_closed_start,           \* src/modules FaceTracker: NoTime for None
    now,                        \* the clock, in whole seconds
    frame                       \* the last frame a tracker was given, its result

\* the temporal state of the two face trackers
tracker ==
    <<ear_frames_below_threshold, blink_counter, blink_timestamps,
      eye_closed_start>>

\* the face trackers, their clock and the last frame
faceVars == <<tracker, now, frame>>

VARIABLES
    model,                  \* ScreenClassifier.model: "None" or "loaded"
    is_running,             \* gui.is_running, main.running
    is_paused,              \* gui.is_paused, dashboard.is_paused
    threads,                \* where each monitoring thread started so far is
    ui,                     \* what the thread of the user interface is doing
    current_face_state,
    current_screen_class,   \* main.current_screen_category
    screen_confidence,      \* gui.screen_confidence, UNSET until assigned
    current_activity,       \* main.current_activity_status
    current_focus_score,
    current_score_label,
    capture_due,            \* time.time() - last capture time >= the interval
    captured,               \* a screen was classified within the last interval
    focus_score_history,    \* gui.focus_score_history
    logged                  \* the newest entry of the session logger

\* the monitors around the trackers, engines and scorers
loopVars ==
    <<model, is_running, is_paused, threads, ui, current_face_state,
      current_screen_class, screen_confidence, current_activity,
      current_focus_score, current_score_label, capture_due, captured,
      focus_score_history, logged>>

\* the variables the calls of the engines and scorers leave alone
ext == <<feed, faceVars, loopVars>>

vars == <<app, current_score, window_size, score_history, ret, probe, ext>>

\* ------------------------------------------------------------------ bounds
\* largest score_smoothing_window the configuration is drawn from
MaxWindow == 2

\* the clock stops at MaxTime seconds
MaxTime == 3

\* most eye closures one run of src/modules' tracker counts
MaxBlinks == 3

\* longest run of closed-eye frames src/src's tracker is given
MaxClosedFrames == 4

\* most eye closures one run of detect_blinks calls counts
MaxWindowBlinks == 21

\* most monitoring threads one run starts
MaxThreads == 2

\* longest focus_score_history a session of the GUI collects
MaxHistory == 2

\* ------------------------------------------------------- enums and config
\* src/utils/helpers.py: AttentionState, ContentCategory, ActivityStatus
AttentionState == {"FOCUSED", "DISTRACTED", "DROWSY"}

ContentCategory ==
    {"STUDY", "EDUCATIONAL_VIDEO", "DISTRACTION_VIDEO", "SOCIAL_MEDIA", "OTHER"}

ActivityStatus ==
    {"PRODUCTIVE", "LEARNING", "LOW_FOCUS", "DISTRACTED", "FATIGUED", "NEUTRAL"}

\* src/src/config.py
FACE_STATES == {"FOCUSED", "DISTRACTED", "DROWSY"}

SCREEN_CLASSES ==
    {"STUDY", "EDUCATIONAL_VIDEO", "DISTRACTION_VIDEO", "SOCIAL_MEDIA", "OTHER"}

ACTIVITY_STATES ==
    {"PRODUCTIVE", "LEARNING", "LOW_FOCUS", "DISTRACTED", "FATIGUED"}

FACE_FOCUSED_POINTS == 40

SCREEN_PRODUCTIVE_POINTS == 30

FACE_DISTRACTED_PENALTY == 0 - 40

FACE_DROWSY_PENALTY == 0 - 30

SCREEN_DISTRACTION_PENALTY == 0 - 40

MIN_FOCUS_SCORE == 0

MAX_FOCUS_SCORE == 100

\* src/src/gui.py: the placeholder of current_face_state / current_screen_class
\* before the first frame and the first screen capture
UNKNOWN == "UNKNOWN"

\* the strings logic.py can be handed, and the enum pairs the modules take
GuiFaces == FACE_STATES \cup {UNKNOWN}

GuiScreens == SCREEN_CLASSES \cup {UNKNOWN}

\* -------------------------------------------------------------- arithmetic
Max(a, b) == IF a >= b THEN a ELSE b

Min(a, b) == IF a <= b THEN a ELSE b

\* clamp that lets a value above max_val through
clamp_no_upper(value, min_val, max_val) == Max(min_val, value)

\* src/utils/helpers.py: clamp
clamp(value, min_val, max_val) == Max(min_val, Min(max_val, value))

RECURSIVE SumSeq(_)
SumSeq(s) == IF s = <<>> THEN 0 ELSE Head(s) + SumSeq(Tail(s))

\* ---------------------------------------------- IEEE-754 double arithmetic
\* src/src/logic.py:112 evaluates 0.7 * current_score + 0.3 * score in binary64
\* and truncates with int().  A non-negative double below 128 is held exactly
\* as an integer count of units of 2^-54, split into three limbs <<h, m, l>>
\* of 21 bits each (value = h * Limb^2 + m * Limb + l), so that every
\* intermediate stays inside TLC's integers.
Limb == 2097152

\* the literal 0.7 is the double 0x1.6666666666666p-1 = 12610078956637388 units
DBL_0_7 == <<2867, 419430, 838860>>

\* the literal 0.3 is the double 0x1.3333333333333p-2 = 5404319552844595 units
DBL_0_3 == <<1228, 1677721, 1258291>>

RECURSIVE Pow2(_)
Pow2(k) == IF k = 0 THEN 1 ELSE 2 * Pow2(k - 1)

\* floor(log2(h)) for h >= 1
RECURSIVE ILog2(_)
ILog2(h) == IF h <= 1 THEN 0 ELSE 1 + ILog2(h \div 2)

\* propagate the carries of a limb triple
Carry(x) ==
    LET m2 == x[2] + (x[3] \div Limb)
    IN  <<x[1] + (m2 \div Limb), m2 % Limb, x[3] % Limb>>

\* an exact value cut to 53 significant bits, the bits below dropped
RoundDouble_toward_zero(x) ==
    LET k == IF x[1] = 0 THEN 0 ELSE ILog2(x[1]) - 10
    IN  IF k <= 0 THEN x
        ELSE <<x[1], x[2], x[3] - (x[3] % Pow2(k))>>

\* round an exact value to 53 significant bits, ties to even.  Every non-zero
\* value met here is at least 0.3, so its leading bit lies in the top limb:
\* bit 42 + ILog2(h), and the ILog2(h) - 10 lowest bits are rounded away.
RoundDouble(x) ==
    LET k == IF x[1] = 0 THEN 0 ELSE ILog2(x[1]) - 10
    IN  IF k <= 0 THEN x
        ELSE LET q    == Pow2(k)
                 r    == x[3] % q
                 down == x[3] - r
                 odd  == (x[3] \div q) % 2 = 1
                 up   == (2 * r > q) \/ (2 * r = q /\ odd)
             IN  Carry(<<x[1], x[2], IF up THEN down + q ELSE down>>)

\* double * int (the int converts exactly), correctly rounded
FloatMul(c, n) == RoundDouble(Carry(<<c[1] * n, c[2] * n, c[3] * n>>))

\* double + double, correctly rounded
FloatAdd(x, y) == RoundDouble(Carry(<<x[1] + y[1], x[2] + y[2], x[3] + y[3]>>))

\* int() replaced by rounding to the nearest integer
FloatToInt_nearest(x) == (x[1] + 2048) \div 4096

\* int(x): truncation toward zero; 2^54 units make 1.0, i.e. 2^12 in the top limb
FloatToInt(x) == x[1] \div 4096

\* src/src/logic.py:112  int(0.7 * self.current_score + 0.3 * score)
Smooth(prev, score) ==
    FloatToInt(FloatAdd(FloatMul(DBL_0_7, prev), FloatMul(DBL_0_3, score)))

\* ------------------------------------------------- src/src/logic.py (gui)
\* ActivityEngine.DECISION_MATRIX: a dict keyed by (face_state, screen_class)
DECISION_MATRIX ==
    [k \in (FACE_STATES \X SCREEN_CLASSES) |->
        CASE k = <<"FOCUSED", "STUDY">>                 -> "PRODUCTIVE"
          [] k = <<"FOCUSED", "EDUCATIONAL_VIDEO">>     -> "LEARNING"
          [] k = <<"FOCUSED", "DISTRACTION_VIDEO">>     -> "DISTRACTED"
          [] k = <<"FOCUSED", "SOCIAL_MEDIA">>          -> "DISTRACTED"
          [] k = <<"FOCUSED", "OTHER">>                 -> "LOW_FOCUS"
          [] k = <<"DISTRACTED", "STUDY">>              -> "LOW_FOCUS"
          [] k = <<"DISTRACTED", "EDUCATIONAL_VIDEO">>  -> "LOW_FOCUS"
          [] k = <<"DISTRACTED", "DISTRACTION_VIDEO">>  -> "DISTRACTED"
          [] k = <<"DISTRACTED", "SOCIAL_MEDIA">>       -> "DISTRACTED"
          [] k = <<"DISTRACTED", "OTHER">>              -> "DISTRACTED"
          [] k = <<"DROWSY", "STUDY">>                  -> "FATIGUED"
          [] k = <<"DROWSY", "EDUCATIONAL_VIDEO">>      -> "FATIGUED"
          [] k = <<"DROWSY", "DISTRACTION_VIDEO">>      -> "FATIGUED"
          [] k = <<"DROWSY", "SOCIAL_MEDIA">>           -> "FATIGUED"
          [] k = <<"DROWSY", "OTHER">>                  -> "FATIGUED"]

\* the outcome of a dict lookup that raises
KeyError == "KeyError"

\* the lookup key built in the wrong order: (screen_class, face_state)
ActivityEngine_determine_activity_swapped(face_state, screen_class) ==
    LET key == <<screen_class, face_state>>
    IN  IF key \in DOMAIN DECISION_MATRIX THEN DECISION_MATRIX[key]
        ELSE "LOW_FOCUS"

\* DECISION_MATRIX[key] in place of .get(key, default): a missing key raises
ActivityEngine_determine_activity_index(face_state, screen_class) ==
    LET key == <<face_state, screen_class>>
    IN  IF key \in DOMAIN DECISION_MATRIX THEN DECISION_MATRIX[key]
        ELSE KeyError

\* a lookup that consults the scorer's state: low scores downgrade the result
ActivityEngine_determine_activity_stateful(face_state, screen_class) ==
    LET key == <<face_state, screen_class>>
    IN  IF key \in DOMAIN DECISION_MATRIX
            THEN IF current_score < 40 /\ DECISION_MATRIX[key] = "PRODUCTIVE"
                     THEN "LOW_FOCUS"
                 ELSE DECISION_MATRIX[key]
        ELSE "LOW_FOCUS"

\* ActivityEngine.determine_activity: DECISION_MATRIX.get(key, "LOW_FOCUS")
ActivityEngine_determine_activity(face_state, screen_class) ==
    LET key == <<face_state, screen_class>>
    IN  IF key \in DOMAIN DECISION_MATRIX THEN DECISION_MATRIX[key]
        ELSE "LOW_FOCUS"

\* the penalties taken as magnitudes and added
FocusScorer_instant_penalties_added(face_state, screen_class) ==
    LET s0 == 0
        s1 == IF face_state = "FOCUSED" THEN s0 + FACE_FOCUSED_POINTS
              ELSE IF face_state = "DISTRACTED" THEN s0 - FACE_DISTRACTED_PENALTY
              ELSE IF face_state = "DROWSY" THEN s0 - FACE_DROWSY_PENALTY
              ELSE s0
        s2 == IF screen_class \in {"STUDY", "EDUCATIONAL_VIDEO"}
                  THEN s1 + SCREEN_PRODUCTIVE_POINTS
              ELSE IF screen_class \in {"DISTRACTION_VIDEO", "SOCIAL_MEDIA"}
                  THEN s1 - SCREEN_DISTRACTION_PENALTY
              ELSE s1
    IN  Max(MIN_FOCUS_SCORE, Min(MAX_FOCUS_SCORE, s2))

\* the score before smoothing started from the neutral 50
FocusScorer_instant_from_neutral(face_state, screen_class) ==
    LET s0 == 50
        s1 == IF face_state = "FOCUSED" THEN s0 + FACE_FOCUSED_POINTS
              ELSE IF face_state = "DISTRACTED" THEN s0 + FACE_DISTRACTED_PENALTY
              ELSE IF face_state = "DROWSY" THEN s0 + FACE_DROWSY_PENALTY
              ELSE s0
        s2 == IF screen_class \in {"STUDY", "EDUCATIONAL_VIDEO"}
                  THEN s1 + SCREEN_PRODUCTIVE_POINTS
              ELSE IF screen_class \in {"DISTRACTION_VIDEO", "SOCIAL_MEDIA"}
                  THEN s1 + SCREEN_DISTRACTION_PENALTY
              ELSE s1
    IN  Max(MIN_FOCUS_SCORE, Min(MAX_FOCUS_SCORE, s2))

\* FocusScorer.calculate_score, lines 92-109: the score before smoothing
FocusScorer_instant(face_state, screen_class) ==
    LET s0 == 0
        s1 == IF face_state = "FOCUSED" THEN s0 + FACE_FOCUSED_POINTS
              ELSE IF face_state = "DISTRACTED" THEN s0 + FACE_DISTRACTED_PENALTY
              ELSE IF face_state = "DROWSY" THEN s0 + FACE_DROWSY_PENALTY
              ELSE s0
        s2 == IF screen_class \in {"STUDY", "EDUCATIONAL_VIDEO"}
                  THEN s1 + SCREEN_PRODUCTIVE_POINTS
              ELSE IF screen_class \in {"DISTRACTION_VIDEO", "SOCIAL_MEDIA"}
                  THEN s1 + SCREEN_DISTRACTION_PENALTY
              ELSE s1
    IN  Max(MIN_FOCUS_SCORE, Min(MAX_FOCUS_SCORE, s2))

\* the bands taken with strict comparisons
FocusScorer_get_score_label_strict(score) ==
    IF score > 80 THEN "Excellent"
    ELSE IF score > 60 THEN "Good"
    ELSE IF score > 40 THEN "Fair"
    ELSE IF score > 20 THEN "Poor"
    ELSE "Very Poor"

\* FocusScorer.get_score_label
FocusScorer_get_score_label(score) ==
    IF score >= 80 THEN "Excellent"
    ELSE IF score >= 60 THEN "Good"
    ELSE IF score >= 40 THEN "Fair"
    ELSE IF score >= 20 THEN "Poor"
    ELSE "Very Poor"

\* ActivityEngine.is_productive
ActivityEngine_is_productive(activity_status) ==
    activity_status \in {"PRODUCTIVE", "LEARNING"}

\* ------------------------------------------------ src/modules (main)
\* priorities 1 and 2 exchanged: distracting content checked before drowsiness
DecisionEngine_determine_activity_content_first(face_state, screen_category) ==
    IF screen_category \in {"DISTRACTION_VIDEO", "SOCIAL_MEDIA"} THEN "DISTRACTED"
    ELSE IF face_state = "DROWSY" THEN "FATIGUED"
    ELSE IF face_state = "DISTRACTED"
        THEN IF screen_category \in {"STUDY", "EDUCATIONAL_VIDEO"}
                 THEN "LOW_FOCUS"
             ELSE "DISTRACTED"
    ELSE IF face_state = "FOCUSED"
        THEN IF screen_category = "STUDY" THEN "PRODUCTIVE"
             ELSE IF screen_category = "EDUCATIONAL_VIDEO" THEN "LEARNING"
             ELSE "NEUTRAL"
    ELSE "NEUTRAL"

\* priority 4 with the two productive outcomes exchanged
DecisionEngine_determine_activity_outcomes_swapped(face_state, screen_category) ==
    IF face_state = "DROWSY" THEN "FATIGUED"
    ELSE IF screen_category \in {"DISTRACTION_VIDEO", "SOCIAL_MEDIA"}
        THEN "DISTRACTED"
    ELSE IF face_state = "DISTRACTED"
        THEN IF screen_category \in {"STUDY", "EDUCATIONAL_VIDEO"}
                 THEN "LOW_FOCUS"
             ELSE "DISTRACTED"
    ELSE IF face_state = "FOCUSED"
        THEN IF screen_category = "STUDY" THEN "LEARNING"
             ELSE IF screen_category = "EDUCATIONAL_VIDEO" THEN "PRODUCTIVE"
             ELSE "NEUTRAL"
    ELSE "NEUTRAL"

\* priority 3 without the studying exception
DecisionEngine_determine_activity_no_low_focus(face_state, screen_category) ==
    IF face_state = "DROWSY" THEN "FATIGUED"
    ELSE IF screen_category \in {"DISTRACTION_VIDEO", "SOCIAL_MEDIA"}
        THEN "DISTRACTED"
    ELSE IF face_state = "DISTRACTED" THEN "DISTRACTED"
    ELSE IF face_state = "FOCUSED"
        THEN IF screen_category = "STUDY" THEN "PRODUCTIVE"
             ELSE IF screen_category = "EDUCATIONAL_VIDEO" THEN "LEARNING"
             ELSE "NEUTRAL"
    ELSE "NEUTRAL"

\* priority 4 with LOW_FOCUS for a focused face on unclear content
DecisionEngine_determine_activity_focused_low(face_state, screen_category) ==
    IF face_state = "DROWSY" THEN "FATIGUED"
    ELSE IF screen_category \in {"DISTRACTION_VIDEO", "SOCIAL_MEDIA"}
        THEN "DISTRACTED"
    ELSE IF face_state = "DISTRACTED"
        THEN IF screen_category \in {"STUDY", "EDUCATIONAL_VIDEO"}
                 THEN "LOW_FOCUS"
             ELSE "DISTRACTED"
    ELSE IF face_state = "FOCUSED"
        THEN IF screen_category = "STUDY" THEN "PRODUCTIVE"
             ELSE IF screen_category = "EDUCATIONAL_VIDEO" THEN "LEARNING"
             ELSE "LOW_FOCUS"
    ELSE "NEUTRAL"

\* DecisionEngine.determine_activity: the priority chain
DecisionEngine_determine_activity(face_state, screen_category) ==
    IF face_state = "DROWSY" THEN "FATIGUED"
    ELSE IF screen_category \in {"DISTRACTION_VIDEO", "SOCIAL_MEDIA"}
        THEN "DISTRACTED"
    ELSE IF face_state = "DISTRACTED"
        THEN IF screen_category \in {"STUDY", "EDUCATIONAL_VIDEO"}
                 THEN "LOW_FOCUS"
             ELSE "DISTRACTED"
    ELSE IF face_state = "FOCUSED"
        THEN IF screen_category = "STUDY" THEN "PRODUCTIVE"
             ELSE IF screen_category = "EDUCATIONAL_VIDEO" THEN "LEARNING"
             ELSE "NEUTRAL"
    ELSE "NEUTRAL"

\* FocusCalculator.calculate_score, lines 71-93: the score appended and returned
FocusCalculator_instant(face_state, screen_category) ==
    LET base_score == 50
        s1 == IF face_state = "FOCUSED" THEN base_score + 40
              ELSE IF face_state = "DROWSY" THEN base_score - 30
              ELSE base_score
        s2 == IF screen_category \in {"STUDY", "EDUCATIONAL_VIDEO"} THEN s1 + 30
              ELSE IF screen_category \in {"DISTRACTION_VIDEO", "SOCIAL_MEDIA"}
                  THEN s1 - 40
              ELSE s1
    IN  clamp(s2, 0, 100)

\* deque(maxlen = n).append: the oldest entry falls out of a full window
DequeAppend(q, x, n) == IF Len(q) < n THEN Append(q, x) ELSE Append(Tail(q), x)

\* FocusCalculator.get_average_score: int(sum / len), 0 for an empty history.
\* The quotient of two ints below 2^53 is correctly rounded and lies at least
\* 1/len below the next integer, so int() of it is the integer quotient.
FocusCalculator_average(history) ==
    IF history = <<>> THEN 0 ELSE SumSeq(history) \div Len(history)

\* ------------------------------------------------ src/src/face_tracker.py
\* src/src/config.py; EAR and gaze in hundredths, angles in degrees
EAR_THRESHOLD == 25

EAR_CONSEC_FRAMES == 3

GAZE_THRESHOLD == 15

HEAD_PITCH_THRESHOLD == 20

HEAD_YAW_THRESHOLD == 25

Abs(x) == IF x < 0 THEN 0 - x ELSE x

\* the state chosen from the drowsiness flag alone
FaceTracker_analyze_frame_no_head_pose(fr, counter) ==
    IF ~fr.face_detected
        THEN [state |-> "DISTRACTED", face_detected |-> FALSE,
              is_drowsy |-> FALSE, pitch |-> 0, yaw |-> 0,
              ear_frames_below_threshold |-> counter]
    ELSE LET c == IF fr.avg_ear < EAR_THRESHOLD THEN counter + 1 ELSE 0
             is_drowsy == c >= EAR_CONSEC_FRAMES
         IN  [state |-> IF is_drowsy THEN "DROWSY" ELSE "FOCUSED",
              face_detected |-> TRUE, is_drowsy |-> is_drowsy,
              pitch |-> fr.pitch, yaw |-> fr.yaw,
              ear_frames_below_threshold |-> c]

\* the drowsiness flag raised one closed frame later
FaceTracker_analyze_frame_exceeds(fr, counter) ==
    IF ~fr.face_detected
        THEN [state |-> "DISTRACTED", face_detected |-> FALSE,
              is_drowsy |-> FALSE, pitch |-> 0, yaw |-> 0,
              ear_frames_below_threshold |-> counter]
    ELSE LET c == IF fr.avg_ear < EAR_THRESHOLD THEN counter + 1 ELSE 0
             is_drowsy == c > EAR_CONSEC_FRAMES
             state ==
                 IF is_drowsy THEN "DROWSY"
                 ELSE IF Abs(fr.yaw) > HEAD_YAW_THRESHOLD
                         \/ Abs(fr.pitch) > HEAD_PITCH_THRESHOLD
                     THEN "DISTRACTED"
                 ELSE IF Abs(fr.gaze_h) > GAZE_THRESHOLD
                         \/ Abs(fr.gaze_v) > GAZE_THRESHOLD
                     THEN "DISTRACTED"
                 ELSE "FOCUSED"
         IN  [state |-> state, face_detected |-> TRUE,
              is_drowsy |-> is_drowsy, pitch |-> fr.pitch, yaw |-> fr.yaw,
              ear_frames_below_threshold |-> c]

\* FaceTracker.analyze_frame of src/src on a frame in which face_mesh found
\* a face or none, its EAR, pose and gaze as estimated, entered with the
\* counter at counter: the result and the counter it leaves
FaceTracker_analyze_frame(fr, counter) ==
    IF ~fr.face_detected
        THEN [state |-> "DISTRACTED", face_detected |-> FALSE,
              is_drowsy |-> FALSE, pitch |-> 0, yaw |-> 0,
              ear_frames_below_threshold |-> counter]
    ELSE LET c == IF fr.avg_ear < EAR_THRESHOLD THEN counter + 1 ELSE 0
             is_drowsy == c >= EAR_CONSEC_FRAMES
             state ==
                 IF is_drowsy THEN "DROWSY"
                 ELSE IF Abs(fr.yaw) > HEAD_YAW_THRESHOLD
                         \/ Abs(fr.pitch) > HEAD_PITCH_THRESHOLD
                     THEN "DISTRACTED"
                 ELSE IF Abs(fr.gaze_h) > GAZE_THRESHOLD
                         \/ Abs(fr.gaze_v) > GAZE_THRESHOLD
                     THEN "DISTRACTED"
                 ELSE "FOCUSED"
         IN  [state |-> state, face_detected |-> TRUE,
              is_drowsy |-> is_drowsy, pitch |-> fr.pitch, yaw |-> fr.yaw,
              ear_frames_below_threshold |-> c]

\* -------------------------------------------- src/modules/face_tracker.py
\* FaceTracker.__init__ and the defaults of the configured thresholds
ear_threshold == 21

BLINK_WINDOW == 20

eye_closed_duration == 2

drowsiness_blink_rate == 20

distraction_head_angle == 30

gaze_deviation_threshold == 30

\* eye_closed_start = None
NoTime == 0 - 1

\* a blink counted on every frame with closed eyes
FaceTracker_detect_blinks_every_frame(tr, avg_ear, t) ==
    IF avg_ear < ear_threshold
        THEN [eye_closed_start |-> t,
              blink_counter |-> tr.blink_counter + 1,
              blink_timestamps |->
                  DequeAppend(tr.blink_timestamps, t, BLINK_WINDOW)]
    ELSE [tr EXCEPT !.eye_closed_start = NoTime]

\* FaceTracker.detect_blinks at time t: the temporal state it leaves
FaceTracker_detect_blinks(tr, avg_ear, t) ==
    IF avg_ear < ear_threshold
        THEN IF tr.eye_closed_start = NoTime
                 THEN [eye_closed_start |-> t,
                       blink_counter |-> tr.blink_counter + 1,
                       blink_timestamps |->
                           DequeAppend(tr.blink_timestamps, t, BLINK_WINDOW)]
             ELSE tr
    ELSE [tr EXCEPT !.eye_closed_start = NoTime]

\* only the blink rate looked at
FaceTracker_is_drowsy_rate_only(tr, t) ==
    /\ Len(tr.blink_timestamps) >= 2
    /\ LET n == Len(tr.blink_timestamps)
           time_span == tr.blink_timestamps[n] - tr.blink_timestamps[1]
       IN  /\ time_span > 0
           /\ n * 60 > drowsiness_blink_rate * time_span

\* FaceTracker.is_drowsy at time t.  len / time_span * 60 > 20 in binary64
\* agrees with 60 * len > 20 * time_span for whole seconds and len <= 20.
FaceTracker_is_drowsy(tr, t) ==
    \/ /\ tr.eye_closed_start # NoTime
       /\ t - tr.eye_closed_start > eye_closed_duration
    \/ /\ Len(tr.blink_timestamps) >= 2
       /\ LET n == Len(tr.blink_timestamps)
              time_span == tr.blink_timestamps[n] - tr.blink_timestamps[1]
          IN  /\ time_span > 0
              /\ n * 60 > drowsiness_blink_rate * time_span

\* FaceTracker.estimate_head_pose of src/modules: zeros when solvePnP fails
FaceTracker_estimate_head_pose(fr) ==
    IF fr.success THEN [pitch |-> fr.pitch, yaw |-> fr.yaw]
    ELSE [pitch |-> 0, yaw |-> 0]

\* FaceTracker.is_looking_away
FaceTracker_is_looking_away(yaw, pitch) ==
    Abs(yaw) > distraction_head_angle \/ Abs(pitch) > distraction_head_angle

\* blink bookkeeping done before the frame is looked at
FaceTracker_get_attention_state_blinks_first(fr, tr, t) ==
    LET tr2 == FaceTracker_detect_blinks(tr, fr.avg_ear, t)
    IN  IF ~fr.read_ok \/ ~fr.face_detected
            THEN [state |-> "DISTRACTED", face_detected |-> FALSE,
                  is_drowsy |-> FALSE, pitch |-> 0, yaw |-> 0, tracker |-> tr2]
        ELSE LET is_drowsy == FaceTracker_is_drowsy(tr2, t)
                 pose == FaceTracker_estimate_head_pose(fr)
             IN  [state |->
                      IF is_drowsy THEN "DROWSY"
                      ELSE IF FaceTracker_is_looking_away(pose.yaw, pose.pitch)
                          THEN "DISTRACTED"
                      ELSE IF fr.gaze_deviation > gaze_deviation_threshold
                          THEN "DISTRACTED"
                      ELSE "FOCUSED",
                  face_detected |-> TRUE, is_drowsy |-> is_drowsy,
                  pitch |-> pose.pitch, yaw |-> pose.yaw, tracker |-> tr2]

\* FaceTracker.get_attention_state of src/modules at time t on a frame that
\* was read or not, entered with the temporal state tr
FaceTracker_get_attention_state(fr, tr, t) ==
    IF ~fr.read_ok \/ ~fr.face_detected
        THEN [state |-> "DISTRACTED", face_detected |-> FALSE,
              is_drowsy |-> FALSE, pitch |-> 0, yaw |-> 0, tracker |-> tr]
    ELSE LET tr2 == FaceTracker_detect_blinks(tr, fr.avg_ear, t)
             is_drowsy == FaceTracker_is_drowsy(tr2, t)
             pose == FaceTracker_estimate_head_pose(fr)
         IN  [state |->
                  IF is_drowsy THEN "DROWSY"
                  ELSE IF FaceTracker_is_looking_away(pose.yaw, pose.pitch)
                      THEN "DISTRACTED"
                  ELSE IF fr.gaze_deviation > gaze_deviation_threshold
                      THEN "DISTRACTED"
                  ELSE "FOCUSED",
              face_detected |-> TRUE, is_drowsy |-> is_drowsy,
              pitch |-> pose.pitch, yaw |-> pose.yaw, tracker |-> tr2]

\* ---------------------------------------------------- src/src/screen_eye.py
\* src/src/config.py, in hundredths
CONFIDENCE_THRESHOLD == 60

\* ScreenClassifier._heuristic_classify: the mean brightness decides, the
\* confidence is always 0.5
ScreenClassifier_heuristic_classify(img) ==
    [class |-> IF img.brightness > 200 THEN "STUDY"
               ELSE IF img.brightness < 100 THEN "DISTRACTION_VIDEO"
               ELSE "OTHER",
     confidence |-> 50]

\* ScreenClassifier.predict with the classifier's model m; img carries the
\* top class and the top probability a loaded model gives it
ScreenClassifier_predict(m, img) ==
    IF m = "None" THEN ScreenClassifier_heuristic_classify(img)
    ELSE [class |-> IF img.top_confidence < CONFIDENCE_THRESHOLD THEN "OTHER"
                    ELSE img.top_class,
          confidence |-> img.top_confidence]

\* ------------------------------------------------------------------ state
NONE == "NONE"

NoRet ==
    [op |-> NONE, face |-> NONE, screen |-> NONE, activity |-> NONE,
     prev |-> 0 - 1, inst |-> 0 - 1, score |-> 0 - 1,
     label |-> NONE, is_productive |-> NONE, screen_confidence |-> 0 - 1]

NoProbe == [face |-> NONE, screen |-> NONE, activity |-> NONE]

NoFeed == [face |-> NONE, screen |-> NONE]

\* no frame yet.  For src/src closed counts the consecutive frames with a face
\* whose EAR was below the threshold; for src/modules since is the time of the
\* first frame of the closure going on and elapsed the time from it to the
\* last frame.
NoFrame ==
    [op |-> NONE, in |-> NONE, out |-> NONE,
     closed |-> 0, since |-> NoTime, elapsed |-> 0]

\* screen_confidence is no attribute yet
UNSET == 0 - 1

\* no entry logged yet
NoEntry == [face |-> NONE, screen |-> NONE, activity |-> NONE, score |-> 0 - 1]

\* FocusMonitorGUI.__init__ builds FocusAnalyzer() (current_score = 50);
\* StudyFocusMonitor.__init__ builds FocusCalculator(config) with an empty
\* deque whose maxlen is the configured score_smoothing_window.  The objects
\* of the program that is not running keep their constructor values.  Both
\* constructors leave the last capture time at 0, so a capture is due.
InitObjects ==
    /\ \/ /\ app = "gui" /\ window_size = 0
          /\ current_face_state = UNKNOWN
          /\ current_screen_class = UNKNOWN
          /\ current_activity = UNKNOWN
          /\ current_focus_score = 50
          /\ current_score_label = "Fair"
       \/ /\ app = "main" /\ window_size \in 1..MaxWindow
          /\ current_face_state = "DISTRACTED"
          /\ current_screen_class = "OTHER"
          /\ current_activity = "NEUTRAL"
          /\ current_focus_score = 0
          /\ current_score_label = NONE
    /\ is_running = FALSE
    /\ is_paused = FALSE
    /\ threads = <<>>
    /\ ui = "idle"
    /\ screen_confidence = UNSET
    /\ capture_due = TRUE
    /\ captured = FALSE
    /\ focus_score_history = <<>>
    /\ logged = NoEntry
    /\ current_score = 50
    /\ score_history = <<>>
    /\ ret = NoRet
    /\ probe = NoProbe
    /\ feed = NoFeed
    /\ ear_frames_below_threshold = 0
    /\ blink_counter = 0
    /\ blink_timestamps = <<>>
    /\ eye_closed_start = NoTime
    /\ now = 0
    /\ frame = NoFrame

\* no trained model on disk: the classifiers fall back
Init == InitObjects /\ model = "None"

\* ---------------------------------------------------------------- actions
\* a call of ActivityEngine.determine_activity(face_state, screen_class)
Decide_ActivityEngine ==
    /\ app = "gui"
    /\ \E face_state \in GuiFaces, screen_class \in GuiScreens :
         ret' = [NoRet EXCEPT !.op = "ActivityEngine.determine_activity",
                              !.face = face_state, !.screen = screen_class,
                              !.activity = ActivityEngine_determine_activity(
                                               face_state, screen_class)]
    /\ UNCHANGED <<app, current_score, window_size, score_history, probe>>
    /\ UNCHANGED ext

\* a call of FocusScorer.calculate_score(face_state, screen_class)
FocusScorer_calculate_score ==
    /\ app = "gui"
    /\ \E face_state \in GuiFaces, screen_class \in GuiScreens :
         LET score == FocusScorer_instant(face_state, screen_class)
             new   == Smooth(current_score, score)
         IN  /\ current_score' = new
             /\ ret' = [NoRet EXCEPT !.op = "FocusScorer.calculate_score",
                                     !.face = face_state, !.screen = screen_class,
                                     !.prev = current_score, !.inst = score,
                                     !.score = new]
    /\ UNCHANGED <<app, window_size, score_history, probe>>
    /\ UNCHANGED ext

\* FocusScorer.reset
FocusScorer_reset ==
    /\ app = "gui"
    /\ current_score' = 50
    /\ ret' = [NoRet EXCEPT !.op = "FocusScorer.reset"]
    /\ UNCHANGED <<app, window_size, score_history, probe>>
    /\ UNCHANGED ext

\* a call of DecisionEngine.determine_activity(face_state, screen_category)
Decide_DecisionEngine ==
    /\ app = "main"
    /\ \E face_state \in AttentionState, screen_category \in ContentCategory :
         ret' = [NoRet EXCEPT !.op = "DecisionEngine.determine_activity",
                              !.face = face_state, !.screen = screen_category,
                              !.activity = DecisionEngine_determine_activity(
                                               face_state, screen_category)]
    /\ UNCHANGED <<app, current_score, window_size, score_history, probe>>
    /\ UNCHANGED ext

\* a call of FocusCalculator.calculate_score(face_state, screen_category)
FocusCalculator_calculate_score ==
    /\ app = "main"
    /\ \E face_state \in AttentionState, screen_category \in ContentCategory :
         LET score == FocusCalculator_instant(face_state, screen_category)
         IN  /\ score_history' = DequeAppend(score_history, score, window_size)
             /\ ret' = [NoRet EXCEPT !.op = "FocusCalculator.calculate_score",
                                     !.face = face_state,
                                     !.screen = screen_category,
                                     !.inst = score, !.score = score]
    /\ UNCHANGED <<app, current_score, window_size, probe>>
    /\ UNCHANGED ext

\* FocusCalculator.get_average_score
FocusCalculator_get_average_score ==
    /\ app = "main"
    /\ ret' = [NoRet EXCEPT !.op = "FocusCalculator.get_average_score",
                            !.score = FocusCalculator_average(score_history)]
    /\ UNCHANGED <<app, current_score, window_size, score_history, probe>>
    /\ UNCHANGED ext

\* FocusCalculator.reset_history
FocusCalculator_reset_history ==
    /\ app = "main"
    /\ score_history' = <<>>
    /\ ret' = [NoRet EXCEPT !.op = "FocusCalculator.reset_history"]
    /\ UNCHANGED <<app, current_score, window_size, probe>>
    /\ UNCHANGED ext

Next ==
    \/ Decide_ActivityEngine
    \/ FocusScorer_calculate_score
    \/ FocusScorer_reset
    \/ Decide_DecisionEngine
    \/ FocusCalculator_calculate_score
    \/ FocusCalculator_get_average_score
    \/ FocusCalculator_reset_history

Spec == Init /\ [][Next]_vars

\* ------------------------------------------- the decision call under watch
\* The same two calls, with one call of a run remembered in probe so that
\* later calls with the same arguments can be compared with it.  The watched
\* arguments: an enumerated pair of each kind and the GUI's placeholders.
ProbeFaces == {"FOCUSED", "DISTRACTED", UNKNOWN}

ProbeScreens == {"STUDY", UNKNOWN}

Observe_ActivityEngine ==
    /\ app = "gui"
    /\ probe = NoProbe
    /\ \E face_state \in GuiFaces \cap ProbeFaces,
          screen_class \in GuiScreens \cap ProbeScreens :
         LET a == ActivityEngine_determine_activity(face_state, screen_class)
         IN  /\ ret' = [NoRet EXCEPT !.op = "ActivityEngine.determine_activity",
                                     !.face = face_state, !.screen = screen_class,
                                     !.activity = a]
             /\ probe' = [face |-> face_state, screen |-> screen_class,
                          activity |-> a]
    /\ UNCHANGED <<app, current_score, window_size, score_history>>
    /\ UNCHANGED ext

Observe_DecisionEngine ==
    /\ app = "main"
    /\ probe = NoProbe
    /\ \E face_state \in AttentionState \cap ProbeFaces,
          screen_category \in ContentCategory \cap ProbeScreens :
         LET a == DecisionEngine_determine_activity(face_state, screen_category)
         IN  /\ ret' = [NoRet EXCEPT !.op = "DecisionEngine.determine_activity",
                                     !.face = face_state,
                                     !.screen = screen_category,
                                     !.activity = a]
             /\ probe' = [face |-> face_state, screen |-> screen_category,
                          activity |-> a]
    /\ UNCHANGED <<app, current_score, window_size, score_history>>
    /\ UNCHANGED ext

NextPure ==
    \/ Next
    \/ Observe_ActivityEngine
    \/ Observe_DecisionEngine

SpecPure == Init /\ [][NextPure]_vars

\* ----------------------------------------------- a constant input stream
\* The GUI scorer after any calls, then fed one pair on every update: the
\* monitoring loop calls calculate_score once per iteration for as long as
\* it runs, so a scorer that is being fed is updated again and again.
FOCUSED_STUDY == [face |-> "FOCUSED", screen |-> "STUDY"]

DROWSY_DISTRACTION_VIDEO == [face |-> "DROWSY", screen |-> "DISTRACTION_VIDEO"]

FeedPairs == {FOCUSED_STUDY, DROWSY_DISTRACTION_VIDEO}

InitFeed == Init /\ app = "gui"

\* Smooth over every pair of scores, computed once
SmoothTable == [prev \in 0..100 |-> [score \in 0..100 |-> Smooth(prev, score)]]

\* from now on every update carries the same pair
Feed_begin ==
    /\ app = "gui"
    /\ feed = NoFeed
    /\ feed' \in FeedPairs
    /\ ret' = NoRet
    /\ UNCHANGED <<app, current_score, window_size, score_history, probe>>
    /\ UNCHANGED <<faceVars, loopVars>>

\* FocusScorer.calculate_score(feed.face, feed.screen)
Feed_calculate_score ==
    /\ app = "gui"
    /\ feed # NoFeed
    /\ LET score == FocusScorer_instant(feed.face, feed.screen)
           new   == SmoothTable[current_score][score]
       IN  /\ current_score' = new
           /\ ret' = [NoRet EXCEPT !.op = "FocusScorer.calculate_score",
                                   !.face = feed.face, !.screen = feed.screen,
                                   !.prev = current_score, !.inst = score,
                                   !.score = new]
    /\ UNCHANGED <<app, window_size, score_history, probe, feed>>
    /\ UNCHANGED <<faceVars, loopVars>>

\* calls with any arguments until the stream becomes constant
Feed_any_calculate_score ==
    /\ feed = NoFeed
    /\ FocusScorer_calculate_score

NextFeed ==
    \/ Feed_any_calculate_score
    \/ Feed_begin
    \/ Feed_calculate_score

SpecFeed == InitFeed /\ [][NextFeed]_vars /\ WF_vars(Feed_calculate_score)

\* ------------------------------------------------------ the GUI analyzer
\* FocusAnalyzer and the label of its scorer, called with any arguments.
\* Confidences are in hundredths; 100 is the default of analyze.
AnalyzeConfidences == {50, 100}

InitAnalyzer == Init /\ app = "gui"

\* a call of FocusScorer.get_score_label(score)
FocusScorer_get_score_label_call ==
    /\ app = "gui"
    /\ \E score \in 0..100 :
         ret' = [NoRet EXCEPT !.op = "FocusScorer.get_score_label",
                              !.score = score,
                              !.label = FocusScorer_get_score_label(score)]
    /\ UNCHANGED <<app, current_score, window_size, score_history, probe>>
    /\ UNCHANGED ext

\* a call of FocusAnalyzer.analyze(face_state, screen_class, confidence)
FocusAnalyzer_analyze ==
    /\ app = "gui"
    /\ \E face_state \in GuiFaces, screen_class \in GuiScreens,
          confidence \in AnalyzeConfidences :
         LET activity_status ==
                 ActivityEngine_determine_activity(face_state, screen_class)
             score == FocusScorer_instant(face_state, screen_class)
             focus_score == SmoothTable[current_score][score]
         IN  /\ current_score' = focus_score
             /\ ret' = [op |-> "FocusAnalyzer.analyze",
                        face |-> face_state, screen |-> screen_class,
                        activity |-> activity_status,
                        prev |-> current_score, inst |-> score,
                        score |-> focus_score,
                        label |-> FocusScorer_get_score_label(focus_score),
                        is_productive |->
                            ActivityEngine_is_productive(activity_status),
                        screen_confidence |-> confidence]
    /\ UNCHANGED <<app, window_size, score_history, probe>>
    /\ UNCHANGED ext

\* FocusAnalyzer.reset
FocusAnalyzer_reset ==
    /\ app = "gui"
    /\ current_score' = 50
    /\ ret' = [NoRet EXCEPT !.op = "FocusAnalyzer.reset"]
    /\ UNCHANGED <<app, window_size, score_history, probe>>
    /\ UNCHANGED ext

NextAnalyzer ==
    \/ FocusScorer_get_score_label_call
    \/ FocusAnalyzer_analyze
    \/ FocusAnalyzer_reset

SpecAnalyzer == InitAnalyzer /\ [][NextAnalyzer]_vars

\* ------------------------------------------------- the smoothing step
\* FocusScorer.calculate_score as a function of the score held: current_score
\* is a plain attribute of the scorer, taken here at every value of the range
\* the scores are clamped to.
FocusScorer_holds_score ==
    /\ app = "gui"
    /\ \E p \in MIN_FOCUS_SCORE..MAX_FOCUS_SCORE : current_score' = p
    /\ ret' = NoRet
    /\ UNCHANGED <<app, window_size, score_history, probe>>
    /\ UNCHANGED ext

NextSmooth ==
    \/ FocusScorer_holds_score
    \/ FocusScorer_calculate_score

InitSmooth == Init /\ app = "gui"

SpecSmooth == InitSmooth /\ [][NextSmooth]_vars

\* ------------------------------------------------------ the face trackers
\* The two trackers given frames one after another.  A frame is what
\* MediaPipe and solvePnP make of the camera image: whether a face was found,
\* the average EAR and the gaze in hundredths, yaw and pitch in degrees.
\* success is what solvePnP reports; yaw and pitch are the angles worked out
\* of the rotation vector it leaves, which src/src works out and uses whatever
\* it reports.
GuiFrames ==
    {[face_detected |-> FALSE, avg_ear |-> 0, yaw |-> 0, pitch |-> 0,
      gaze_h |-> 0, gaze_v |-> 0, success |-> FALSE]}
    \cup [face_detected : {TRUE}, avg_ear : {24, 25},
          yaw : {0 - 35, 0, 25, 35}, pitch : {5, 21},
          gaze_h : {0 - 16, 0, 15}, gaze_v : {0, 16}, success : BOOLEAN]

MainFrames ==
    [read_ok : {FALSE}, face_detected : {FALSE}, avg_ear : {0}, yaw : {0},
     pitch : {0}, gaze_deviation : {0}, success : {FALSE}]
    \cup [read_ok : {TRUE}, face_detected : {FALSE}, avg_ear : {0}, yaw : {0},
          pitch : {0}, gaze_deviation : {0}, success : {FALSE}]
    \cup [read_ok : {TRUE}, face_detected : {TRUE}, avg_ear : {20, 21},
          yaw : {0, 30, 35}, pitch : {5, 31}, gaze_deviation : {30, 31},
          success : BOOLEAN]

\* the temporal state of src/modules' tracker as one record
Tracker ==
    [blink_counter |-> blink_counter, blink_timestamps |-> blink_timestamps,
     eye_closed_start |-> eye_closed_start]

\* src/src: FaceTracker.analyze_frame(frame)
FaceTracker_analyze_frame_call ==
    /\ app = "gui"
    /\ \E fr \in GuiFrames :
         LET r == FaceTracker_analyze_frame(fr, ear_frames_below_threshold)
             below == fr.face_detected /\ fr.avg_ear < EAR_THRESHOLD
         IN  /\ below => ear_frames_below_threshold < MaxClosedFrames
             /\ ear_frames_below_threshold' = r.ear_frames_below_threshold
             /\ frame' = [op |-> "FaceTracker.analyze_frame", in |-> fr,
                          out |-> [state |-> r.state,
                                   face_detected |-> r.face_detected,
                                   is_drowsy |-> r.is_drowsy,
                                   pitch |-> r.pitch, yaw |-> r.yaw],
                          closed |-> IF ~fr.face_detected THEN frame.closed
                                     ELSE IF below THEN frame.closed + 1
                                     ELSE 0,
                          since |-> NoTime, elapsed |-> 0]
    /\ UNCHANGED <<app, current_score, window_size, score_history, ret, probe>>
    /\ UNCHANGED <<feed, blink_counter, blink_timestamps, eye_closed_start, now>>
    /\ UNCHANGED loopVars

\* src/modules: FaceTracker.get_attention_state()
FaceTracker_get_attention_state_call ==
    /\ app = "main"
    /\ \E fr \in MainFrames :
         LET r == FaceTracker_get_attention_state(fr, Tracker, now)
             seen == fr.read_ok /\ fr.face_detected
             below == seen /\ fr.avg_ear < ear_threshold
             since == IF ~seen THEN frame.since
                      ELSE IF ~below THEN NoTime
                      ELSE IF frame.since = NoTime THEN now
                      ELSE frame.since
         IN  /\ (below /\ eye_closed_start = NoTime) => blink_counter < MaxBlinks
             /\ blink_counter' = r.tracker.blink_counter
             /\ blink_timestamps' = r.tracker.blink_timestamps
             /\ eye_closed_start' = r.tracker.eye_closed_start
             /\ frame' = [op |-> "FaceTracker.get_attention_state", in |-> fr,
                          out |-> [state |-> r.state,
                                   face_detected |-> r.face_detected,
                                   is_drowsy |-> r.is_drowsy,
                                   pitch |-> r.pitch, yaw |-> r.yaw],
                          closed |-> 0, since |-> since,
                          elapsed |-> IF since = NoTime THEN 0 ELSE now - since]
    /\ UNCHANGED <<app, current_score, window_size, score_history, ret, probe>>
    /\ UNCHANGED <<feed, ear_frames_below_threshold, now>>
    /\ UNCHANGED loopVars

\* a second goes by between two frames of src/modules' tracker
Tick ==
    /\ app = "main"
    /\ now < MaxTime
    /\ now' = now + 1
    /\ UNCHANGED <<app, current_score, window_size, score_history, ret, probe>>
    /\ UNCHANGED <<feed, tracker, frame>>
    /\ UNCHANGED loopVars

NextFace ==
    \/ FaceTracker_analyze_frame_call
    \/ FaceTracker_get_attention_state_call
    \/ Tick

SpecFace == Init /\ [][NextFace]_vars

\* ------------------------------------------------- the blink bookkeeping
\* src/modules' tracker given the eye aspect ratios of one frame after
\* another, with the clock going on between them.
\* FaceTracker.detect_blinks(left_ear, right_ear), avg_ear their mean
FaceTracker_detect_blinks_call ==
    /\ app = "main"
    /\ \E avg_ear \in {20, 21} :
         LET r == FaceTracker_detect_blinks(Tracker, avg_ear, now)
         IN  /\ r.blink_counter <= MaxWindowBlinks
             /\ blink_counter' = r.blink_counter
             /\ blink_timestamps' = r.blink_timestamps
             /\ eye_closed_start' = r.eye_closed_start
             /\ frame' = [NoFrame EXCEPT
                             !.op = "FaceTracker.detect_blinks",
                             !.in = avg_ear,
                             !.out = r.blink_counter # blink_counter]
    /\ UNCHANGED <<app, current_score, window_size, score_history, ret, probe>>
    /\ UNCHANGED <<feed, ear_frames_below_threshold, now>>
    /\ UNCHANGED loopVars

NextBlinks ==
    \/ FaceTracker_detect_blinks_call
    \/ Tick

InitBlinks == Init /\ app = "main"

SpecBlinks == InitBlinks /\ [][NextBlinks]_vars

\* ------------------------------------------------------- the GUI monitor
\* src/src/gui.py.  The thread of the user interface runs start_monitoring,
\* stop_monitoring and toggle_pause; every start_monitoring starts one more
\* thread in monitoring_loop.  An iteration of the loop is three steps; a
\* thread is at "top" before the test of is_running, at "capture" after
\* analyze_frame, at "classify" when it is about to capture the screen, at
\* "analyze" after the periodic screen capture, "done" when
\* it has left the loop and "dead" when an exception ended it.
InitLoop ==
    /\ InitObjects
    /\ model \in IF app = "gui" THEN {"None", "loaded"} ELSE {"None"}

\* the frames and screens the monitors meet
GuiLoopFrames ==
    {fr \in GuiFrames : fr.avg_ear < EAR_THRESHOLD /\ fr.yaw = 0
                           /\ (fr.face_detected => fr.success)
                           /\ fr.pitch \in {0, 5}
                           /\ fr.gaze_h = 0 /\ fr.gaze_v = 0}

GuiScreenImages ==
    [brightness : {150, 250}, top_class : {"STUDY"}, top_confidence : {59, 60}]

\* CAPTURE_INTERVAL seconds, or the interval of main.py, have gone by since
\* the last capture time was set
CaptureIntervalElapses ==
    /\ ~capture_due
    /\ capture_due' = TRUE
    /\ captured' = FALSE
    /\ UNCHANGED <<app, current_score, window_size, score_history, ret, probe>>
    /\ UNCHANGED <<feed, faceVars>>
    /\ UNCHANGED <<model, is_running, is_paused, threads, ui,
                   current_face_state, current_screen_class, screen_confidence,
                   current_activity, current_focus_score, current_score_label,
                   focus_score_history, logged>>

\* FocusMonitorGUI.start_monitoring, the webcam opened
FocusMonitorGUI_start_monitoring ==
    /\ app = "gui"
    /\ ui = "idle" /\ ~is_running
    /\ Len(threads) < MaxThreads
    /\ is_running' = TRUE
    /\ is_paused' = FALSE
    /\ capture_due' = FALSE
    /\ focus_score_history' = <<>>
    /\ threads' = Append(threads, "top")
    /\ UNCHANGED <<app, current_score, window_size, score_history, ret, probe>>
    /\ UNCHANGED <<feed, faceVars>>
    /\ UNCHANGED captured
    /\ UNCHANGED <<model, ui, current_face_state, current_screen_class,
                   screen_confidence, current_activity, current_focus_score,
                   current_score_label, logged>>

\* FocusMonitorGUI.stop_monitoring up to the join
FocusMonitorGUI_stop_monitoring ==
    /\ app = "gui"
    /\ ui = "idle" /\ is_running
    /\ is_running' = FALSE
    /\ ui' = "joining"
    /\ UNCHANGED <<app, current_score, window_size, score_history, ret, probe>>
    /\ UNCHANGED <<feed, faceVars>>
    /\ UNCHANGED captured
    /\ UNCHANGED <<model, is_paused, threads, current_face_state,
                   current_screen_class, screen_confidence, current_activity,
                   current_focus_score, current_score_label, capture_due,
                   focus_score_history, logged>>

\* FocusMonitorGUI.stop_monitoring from the return of join(timeout = 2), with
\* the thread ended or not, to the saving of the session
FocusMonitorGUI_stop_monitoring_joined ==
    /\ app = "gui"
    /\ ui = "joining"
    /\ ui' = "idle"
    /\ UNCHANGED <<app, current_score, window_size, score_history, ret, probe>>
    /\ UNCHANGED <<feed, faceVars>>
    /\ UNCHANGED captured
    /\ UNCHANGED <<model, is_running, is_paused, threads, current_face_state,
                   current_screen_class, screen_confidence, current_activity,
                   current_focus_score, current_score_label, capture_due,
                   focus_score_history, logged>>

\* FocusMonitorGUI.toggle_pause, by the button or by Control-p
FocusMonitorGUI_toggle_pause ==
    /\ app = "gui"
    /\ ui = "idle"
    /\ is_paused' = ~is_paused
    /\ UNCHANGED <<app, current_score, window_size, score_history, ret, probe>>
    /\ UNCHANGED <<feed, faceVars>>
    /\ UNCHANGED captured
    /\ UNCHANGED <<model, is_running, threads, ui, current_face_state,
                   current_screen_class, screen_confidence, current_activity,
                   current_focus_score, current_score_label, capture_due,
                   focus_score_history, logged>>

\* a loop that does not test the pause flag
monitoring_loop_iterates_paused(running, paused) == running

\* while self.is_running: if self.is_paused: sleep, continue (gui.py), and
\* while self.running: if self.dashboard.is_paused_state(): sleep, continue
\* (main.py): the loop goes on to read a frame
monitoring_loop_iterates(running, paused) == running /\ ~paused

\* monitoring_loop, lines 239-251: the loop ends when is_running is False;
\* a paused loop sleeps and a frame that cannot be read is skipped, both
\* without a change; otherwise the frame goes to analyze_frame
FocusMonitorGUI_monitoring_loop_top ==
    /\ app = "gui"
    /\ \E i \in DOMAIN threads :
         /\ threads[i] = "top"
         /\ \/ /\ ~is_running
               /\ threads' = [threads EXCEPT ![i] = "done"]
               /\ UNCHANGED <<faceVars, current_face_state>>
            \/ /\ monitoring_loop_iterates(is_running, is_paused)
               /\ \E fr \in GuiLoopFrames :
                    LET r == FaceTracker_analyze_frame(
                                 fr, ear_frames_below_threshold)
                        below == fr.face_detected /\ fr.avg_ear < EAR_THRESHOLD
                    IN  /\ below => ear_frames_below_threshold < MaxClosedFrames
                        /\ ear_frames_below_threshold' =
                               r.ear_frames_below_threshold
                        /\ current_face_state' = r.state
                        /\ frame' =
                             [op |-> "FaceTracker.analyze_frame", in |-> fr,
                              out |-> [state |-> r.state,
                                       face_detected |-> r.face_detected,
                                       is_drowsy |-> r.is_drowsy,
                                       pitch |-> r.pitch, yaw |-> r.yaw],
                              closed |-> IF ~fr.face_detected THEN frame.closed
                                         ELSE IF below THEN frame.closed + 1
                                         ELSE 0,
                              since |-> NoTime, elapsed |-> 0]
               /\ threads' = [threads EXCEPT ![i] = "capture"]
               /\ UNCHANGED <<blink_counter, blink_timestamps,
                              eye_closed_start, now>>
    /\ UNCHANGED <<app, current_score, window_size, score_history, ret, probe>>
    /\ UNCHANGED captured
    /\ UNCHANGED <<feed, model, is_running, is_paused, ui,
                   current_screen_class, screen_confidence, current_activity,
                   current_focus_score, current_score_label, capture_due,
                   focus_score_history, logged>>

\* monitoring_loop, lines 259-265: the periodic screen capture.  The test of
\* the capture time sends the thread to "classify" when a capture is due;
\* there screen_analyzer.analyze runs, its result is stored and only then
\* the capture time is set
FocusMonitorGUI_monitoring_loop_capture ==
    /\ app = "gui"
    /\ \E i \in DOMAIN threads :
         \/ /\ threads[i] = "capture"
            /\ threads' = [threads EXCEPT
                              ![i] = IF capture_due THEN "classify"
                                     ELSE "analyze"]
            /\ UNCHANGED <<current_screen_class, screen_confidence,
                           capture_due, captured>>
         \/ /\ threads[i] = "classify"
            /\ threads' = [threads EXCEPT ![i] = "analyze"]
            /\ \E img \in GuiScreenImages :
                 LET screen_result == ScreenClassifier_predict(model, img)
                 IN  /\ current_screen_class' = screen_result.class
                     /\ screen_confidence' = screen_result.confidence
                     /\ capture_due' = FALSE
                     /\ captured' = TRUE
    /\ UNCHANGED <<app, current_score, window_size, score_history, ret, probe>>
    /\ UNCHANGED <<feed, faceVars>>
    /\ UNCHANGED <<model, is_running, is_paused, ui, current_face_state,
                   current_activity, current_focus_score, current_score_label,
                   focus_score_history, logged>>

\* monitoring_loop, lines 267-287: FocusAnalyzer.analyze on the current
\* face state, screen class and confidence, its result published, appended
\* to the history and, once LOG_INTERVAL seconds have gone by, logged; reading
\* screen_confidence before any capture has assigned it ends the thread
FocusMonitorGUI_monitoring_loop_analyze ==
    /\ app = "gui"
    /\ \E i \in DOMAIN threads :
         /\ threads[i] = "analyze"
         /\ IF screen_confidence = UNSET
                THEN /\ threads' = [threads EXCEPT ![i] = "dead"]
                     /\ UNCHANGED <<current_score, ret, current_activity,
                                    current_focus_score, current_score_label,
                                    focus_score_history, logged>>
            ELSE LET activity_status ==
                         ActivityEngine_determine_activity(
                             current_face_state, current_screen_class)
                     score == FocusScorer_instant(
                                  current_face_state, current_screen_class)
                     focus_score == SmoothTable[current_score][score]
                 IN  /\ Len(focus_score_history) < MaxHistory
                     /\ threads' = [threads EXCEPT ![i] = "top"]
                     /\ current_score' = focus_score
                     /\ ret' = [op |-> "FocusAnalyzer.analyze",
                                face |-> current_face_state,
                                screen |-> current_screen_class,
                                activity |-> activity_status,
                                prev |-> current_score, inst |-> score,
                                score |-> focus_score,
                                label |->
                                    FocusScorer_get_score_label(focus_score),
                                is_productive |->
                                    ActivityEngine_is_productive(
                                        activity_status),
                                screen_confidence |-> screen_confidence]
                     /\ current_activity' = activity_status
                     /\ current_focus_score' = focus_score
                     /\ current_score_label' =
                            FocusScorer_get_score_label(focus_score)
                     /\ focus_score_history' =
                            Append(focus_score_history, focus_score)
                     /\ logged' \in
                            {logged,
                             [face |-> current_face_state,
                              screen |-> current_screen_class,
                              activity |-> activity_status,
                              score |-> focus_score]}
    /\ UNCHANGED <<app, window_size, score_history, probe>>
    /\ UNCHANGED <<feed, faceVars>>
    /\ UNCHANGED captured
    /\ UNCHANGED <<model, is_running, is_paused, ui, current_face_state,
                   current_screen_class, screen_confidence, capture_due>>

NextGui ==
    \/ FocusMonitorGUI_start_monitoring
    \/ FocusMonitorGUI_stop_monitoring
    \/ FocusMonitorGUI_stop_monitoring_joined
    \/ FocusMonitorGUI_toggle_pause
    \/ FocusMonitorGUI_monitoring_loop_top
    \/ FocusMonitorGUI_monitoring_loop_capture
    \/ FocusMonitorGUI_monitoring_loop_analyze

\* ------------------------------------------------------ the main monitor
\* src/main.py.  start() starts the one thread of monitoring_loop and runs
\* the dashboard, whose pause button is Dashboard.toggle_pause; when the
\* dashboard returns, stop() ends the loop and writes the final log entry.
\* ui is "dashboard" while the dashboard runs and "stopped" after stop().
\* The clock of the tracker stands still here: the frames of a run of the
\* monitor fall within one second.
MainLoopFrames ==
    {fr \in MainFrames : /\ fr.read_ok
                         /\ fr.yaw = 0 /\ fr.pitch \in {0, 5}
                         /\ fr.gaze_deviation \in {0, 30}
                         /\ fr.face_detected => fr.success}

\* what ContentClassifier.classify_screen makes of the captured screens
MainScreenCategories == {"STUDY", "DISTRACTION_VIDEO"}

\* StudyFocusMonitor.log_current_state: the four current values as one entry
LogEntry ==
    [face |-> current_face_state, screen |-> current_screen_class,
     activity |-> current_activity, score |-> current_focus_score]

\* StudyFocusMonitor.start up to dashboard.run(), the hardware initialized
StudyFocusMonitor_start ==
    /\ app = "main"
    /\ ui = "idle"
    /\ is_running' = TRUE
    /\ threads' = Append(threads, "top")
    /\ ui' = "dashboard"
    /\ UNCHANGED <<app, current_score, window_size, score_history, ret, probe>>
    /\ UNCHANGED <<feed, faceVars>>
    /\ UNCHANGED captured
    /\ UNCHANGED <<model, is_paused, current_face_state, current_screen_class,
                   screen_confidence, current_activity, current_focus_score,
                   current_score_label, capture_due, focus_score_history,
                   logged>>

\* Dashboard.toggle_pause
Dashboard_toggle_pause ==
    /\ app = "main"
    /\ ui = "dashboard"
    /\ is_paused' = ~is_paused
    /\ UNCHANGED <<app, current_score, window_size, score_history, ret, probe>>
    /\ UNCHANGED <<feed, faceVars>>
    /\ UNCHANGED captured
    /\ UNCHANGED <<model, is_running, threads, ui, current_face_state,
                   current_screen_class, screen_confidence, current_activity,
                   current_focus_score, current_score_label, capture_due,
                   focus_score_history, logged>>

\* StudyFocusMonitor.stop up to the join, the dashboard closed
StudyFocusMonitor_stop ==
    /\ app = "main"
    /\ ui = "dashboard"
    /\ is_running' = FALSE
    /\ ui' = "joining"
    /\ UNCHANGED <<app, current_score, window_size, score_history, ret, probe>>
    /\ UNCHANGED <<feed, faceVars>>
    /\ UNCHANGED captured
    /\ UNCHANGED <<model, is_paused, threads, current_face_state,
                   current_screen_class, screen_confidence, current_activity,
                   current_focus_score, current_score_label, capture_due,
                   focus_score_history, logged>>

\* StudyFocusMonitor.stop from the return of join(timeout = 2), with the
\* thread ended or not: log_current_state writes the final entry
StudyFocusMonitor_stop_joined ==
    /\ app = "main"
    /\ ui = "joining"
    /\ logged' = LogEntry
    /\ ui' = "stopped"
    /\ UNCHANGED <<app, current_score, window_size, score_history, ret, probe>>
    /\ UNCHANGED <<feed, faceVars>>
    /\ UNCHANGED captured
    /\ UNCHANGED <<model, is_running, is_paused, threads, current_face_state,
                   current_screen_class, screen_confidence, current_activity,
                   current_focus_score, current_score_label, capture_due,
                   focus_score_history>>

\* monitoring_loop, lines 162-170: the loop ends when running is False; a
\* paused loop sleeps without a change; otherwise process_frame
StudyFocusMonitor_monitoring_loop_top ==
    /\ app = "main"
    /\ \E i \in DOMAIN threads :
         /\ threads[i] = "top"
         /\ \/ /\ ~is_running
               /\ threads' = [threads EXCEPT ![i] = "done"]
               /\ UNCHANGED <<faceVars, current_face_state>>
            \/ /\ monitoring_loop_iterates(is_running, is_paused)
               /\ \E fr \in MainLoopFrames :
                    LET r == FaceTracker_get_attention_state(fr, Tracker, now)
                        seen == fr.read_ok /\ fr.face_detected
                        below == seen /\ fr.avg_ear < ear_threshold
                        since == IF ~seen THEN frame.since
                                 ELSE IF ~below THEN NoTime
                                 ELSE IF frame.since = NoTime THEN now
                                 ELSE frame.since
                    IN  /\ (below /\ eye_closed_start = NoTime)
                               => blink_counter < MaxBlinks
                        /\ blink_counter' = r.tracker.blink_counter
                        /\ blink_timestamps' = r.tracker.blink_timestamps
                        /\ eye_closed_start' = r.tracker.eye_closed_start
                        /\ current_face_state' = r.state
                        /\ frame' =
                             [op |-> "FaceTracker.get_attention_state",
                              in |-> fr,
                              out |-> [state |-> r.state,
                                       face_detected |-> r.face_detected,
                                       is_drowsy |-> r.is_drowsy,
                                       pitch |-> r.pitch, yaw |-> r.yaw],
                              closed |-> 0, since |-> since,
                              elapsed |-> IF since = NoTime THEN 0
                                          ELSE now - since]
               /\ threads' = [threads EXCEPT ![i] = "capture"]
               /\ UNCHANGED <<ear_frames_below_threshold, now>>
    /\ UNCHANGED <<app, current_score, window_size, score_history, ret, probe>>
    /\ UNCHANGED captured
    /\ UNCHANGED <<feed, model, is_running, is_paused, ui,
                   current_screen_class, screen_confidence, current_activity,
                   current_focus_score, current_score_label, capture_due,
                   focus_score_history, logged>>

\* monitoring_loop, lines 172-176: process_screen_capture when it is due
StudyFocusMonitor_monitoring_loop_capture ==
    /\ app = "main"
    /\ \E i \in DOMAIN threads :
         /\ threads[i] = "capture"
         /\ threads' = [threads EXCEPT ![i] = "update"]
         /\ IF capture_due
                THEN /\ current_screen_class' \in MainScreenCategories
                     /\ capture_due' = FALSE
                     /\ captured' = TRUE
            ELSE UNCHANGED <<current_screen_class, capture_due, captured>>
    /\ UNCHANGED <<app, current_score, window_size, score_history, ret, probe>>
    /\ UNCHANGED <<feed, faceVars>>
    /\ UNCHANGED <<model, is_running, is_paused, ui, current_face_state,
                   screen_confidence, current_activity, current_focus_score,
                   current_score_label, focus_score_history, logged>>

\* monitoring_loop, lines 178-184: update_status, then log_current_state
\* once log_interval seconds have gone by since the last entry
StudyFocusMonitor_monitoring_loop_update ==
    /\ app = "main"
    /\ \E i \in DOMAIN threads :
         /\ threads[i] = "update"
         /\ threads' = [threads EXCEPT ![i] = "top"]
         /\ LET activity_status ==
                    DecisionEngine_determine_activity(
                        current_face_state, current_screen_class)
                score == FocusCalculator_instant(
                             current_face_state, current_screen_class)
            IN  /\ current_activity' = activity_status
                /\ score_history' =
                       DequeAppend(score_history, score, window_size)
                /\ current_focus_score' = score
                /\ ret' = [NoRet EXCEPT
                              !.op = "StudyFocusMonitor.update_status",
                              !.face = current_face_state,
                              !.screen = current_screen_class,
                              !.activity = activity_status,
                              !.inst = score, !.score = score]
                /\ logged' \in
                       {logged,
                        [face |-> current_face_state,
                         screen |-> current_screen_class,
                         activity |-> activity_status, score |-> score]}
    /\ UNCHANGED <<app, current_score, window_size, probe>>
    /\ UNCHANGED <<feed, faceVars>>
    /\ UNCHANGED captured
    /\ UNCHANGED <<model, is_running, is_paused, ui, current_face_state,
                   current_screen_class, screen_confidence,
                   current_score_label, capture_due, focus_score_history>>

NextMain ==
    \/ StudyFocusMonitor_start
    \/ Dashboard_toggle_pause
    \/ StudyFocusMonitor_stop
    \/ StudyFocusMonitor_stop_joined
    \/ StudyFocusMonitor_monitoring_loop_top
    \/ StudyFocusMonitor_monitoring_loop_capture
    \/ StudyFocusMonitor_monitoring_loop_update

\* either program, its threads interleaved step by step
NextMonitor ==
    \/ CaptureIntervalElapses
    \/ NextGui
    \/ NextMain

SpecMonitor == InitLoop /\ [][NextMonitor]_vars

\* ----------------------------------------------------------------- claims
DecideOps ==
    {"ActivityEngine.determine_activity", "DecisionEngine.determine_activity"}

CalcOps == {"FocusScorer.calculate_score", "FocusCalculator.calculate_score"}

ScoreOps == CalcOps \cup {"FocusCalculator.get_average_score"}

C2_DrowsyFatigued ==
    (ret.op \in DecideOps /\ ret.face = "DROWSY" /\ ret.screen \in ContentCategory)
        => ret.activity = "FATIGUED"

\* C2 witness: DecisionEngine decided a drowsy face on distracting content
C2_Witness ==
    /\ ret.op = "DecisionEngine.determine_activity"
    /\ ret.face = "DROWSY" /\ ret.screen = "SOCIAL_MEDIA"
    /\ ret.activity = "FATIGUED"

\* C3: both engines decide PRODUCTIVE for (FOCUSED, STUDY) and LEARNING for
\* (FOCUSED, EDUCATIONAL_VIDEO).
C3_FocusedOutcomes ==
    ret.op \in DecideOps /\ ret.face = "FOCUSED" =>
        /\ ret.screen = "STUDY" => ret.activity = "PRODUCTIVE"
        /\ ret.screen = "EDUCATIONAL_VIDEO" => ret.activity = "LEARNING"

\* C3 witness: DecisionEngine decided LEARNING for a focused face on an
\* educational video
C3_Witness ==
    /\ ret.op = "DecisionEngine.determine_activity"
    /\ ret.face = "FOCUSED" /\ ret.screen = "EDUCATIONAL_VIDEO"
    /\ ret.activity = "LEARNING"

\* C4: for FOCUSED and DISTRACTED faces, DISTRACTION_VIDEO and SOCIAL_MEDIA
\* are decided DISTRACTED by both engines, whatever the face state.
C4_DistractingContent ==
    (/\ ret.op \in DecideOps
     /\ ret.face \in {"FOCUSED", "DISTRACTED"}
     /\ ret.screen \in {"DISTRACTION_VIDEO", "SOCIAL_MEDIA"})
        => ret.activity = "DISTRACTED"

\* C4 witness: ActivityEngine decided a focused face on a distraction video
C4_Witness ==
    /\ ret.op = "ActivityEngine.determine_activity"
    /\ ret.face = "FOCUSED" /\ ret.screen = "DISTRACTION_VIDEO"
    /\ ret.activity = "DISTRACTED"

\* C5: a DISTRACTED face is decided LOW_FOCUS on STUDY and EDUCATIONAL_VIDEO
\* and DISTRACTED on OTHER, by both engines.
C5_DistractedFace ==
    ret.op \in DecideOps /\ ret.face = "DISTRACTED" =>
        /\ ret.screen \in {"STUDY", "EDUCATIONAL_VIDEO"}
               => ret.activity = "LOW_FOCUS"
        /\ ret.screen = "OTHER" => ret.activity = "DISTRACTED"

\* C5 witness: DecisionEngine decided LOW_FOCUS for a distracted face on study
\* content
C5_Witness ==
    /\ ret.op = "DecisionEngine.determine_activity"
    /\ ret.face = "DISTRACTED" /\ ret.screen = "STUDY"
    /\ ret.activity = "LOW_FOCUS"

\* C6: determine_activity is total: every call returns a valid activity status
\* and never raises; a pair the ActivityEngine table does not list, such as
\* the GUI's UNKNOWN placeholders, gets the default LOW_FOCUS.
C6_DecisionTotal ==
    /\ ret.op = "ActivityEngine.determine_activity" =>
          /\ ret.activity \in ACTIVITY_STATES
          /\ <<ret.face, ret.screen>> \notin (FACE_STATES \X SCREEN_CLASSES)
                 => ret.activity = "LOW_FOCUS"
    /\ ret.op = "DecisionEngine.determine_activity" =>
          ret.activity \in ActivityStatus

\* C6 witness: ActivityEngine was called with both placeholders
C6_Witness ==
    /\ ret.op = "ActivityEngine.determine_activity"
    /\ ret.face = UNKNOWN /\ ret.screen = UNKNOWN
    /\ ret.activity = "LOW_FOCUS"

faceTerm(face) ==
    IF face = "FOCUSED" THEN 40 ELSE IF face = "DROWSY" THEN 0 - 30 ELSE 0

screenTerm(screen) ==
    IF screen \in {"STUDY", "EDUCATIONAL_VIDEO"} THEN 30
    ELSE IF screen \in {"DISTRACTION_VIDEO", "SOCIAL_MEDIA"} THEN 0 - 40
    ELSE 0

\* C8: the score either scorer computes before smoothing is
\* clamp(50 + faceTerm + screenTerm, 0, 100) for every face state and category.
C8_InstantScore ==
    (ret.op \in CalcOps /\ ret.face \in AttentionState
                        /\ ret.screen \in ContentCategory)
        => ret.inst = Max(0, Min(100, 50 + faceTerm(ret.face)
                                         + screenTerm(ret.screen)))

\* C9 as stated: each FocusScorer call replaces the smoothed score by
\* round(0.7 * previous + 0.3 * instantaneous): an integer nearest to
\* (7 * previous + 3 * instantaneous) / 10, a tie going either way.
C9_SmoothRounded ==
    ret.op = "FocusScorer.calculate_score" =>
        LET n == 7 * ret.prev + 3 * ret.inst
        IN  10 * ret.score - n <= 5 /\ n - 10 * ret.score <= 5

\* C9 amended: each FocusScorer call replaces the smoothed score by
\* 0.7 * previous + 0.3 * instantaneous truncated toward zero, which for every
\* score a scorer started at 50 can hold is floor((7 * previous +
\* 3 * instantaneous) / 10).
C9_SmoothTruncated ==
    ret.op = "FocusScorer.calculate_score"
        => /\ ret.score = (7 * ret.prev + 3 * ret.inst) \div 10
           /\ current_score = ret.score

\* C9 witness: 0.7 * 47 + 0.3 * 0 = 32.9 became 32
C9_Witness ==
    /\ ret.op = "FocusScorer.calculate_score"
    /\ ret.prev = 47 /\ ret.inst = 0
    /\ ret.score = 32

\* C10: from the fresh score 50 an update with (FOCUSED, STUDY) yields 65, and
\* from 65 an update with (DISTRACTED, SOCIAL_MEDIA) yields 48.
C10_Scenario ==
    ret.op = "FocusScorer.calculate_score" =>
        /\ (ret.prev = 50 /\ ret.face = "FOCUSED" /\ ret.screen = "STUDY")
               => ret.score = 65
        /\ (ret.prev = 65 /\ ret.face = "DISTRACTED"
                          /\ ret.screen = "SOCIAL_MEDIA")
               => ret.score = 48

\* C11: fed (FOCUSED, STUDY) on every update, the smoothed score stabilises
\* at a value of at least 97: an update that leaves the score where it was
\* leaves it at 97 or more.
C11_FocusedFeed ==
    (feed = FOCUSED_STUDY /\ ret.op = "FocusScorer.calculate_score"
        /\ ret.score = ret.prev) => ret.score >= 97

\* C12: fed (DROWSY, DISTRACTION_VIDEO) on every update, the smoothed score
\* never increases from one update to the next and eventually stays at one
\* value that is at most 3.
C12_DrowsyFeed ==
    /\ [][(feed = DROWSY_DISTRACTION_VIDEO /\ feed' = feed)
             => current_score' <= current_score]_vars
    /\ <>[][feed = DROWSY_DISTRACTION_VIDEO
               => current_score' = current_score /\ current_score <= 3]_vars

\* C12 witness: the fed scorer has just gone down from 67, the highest score
\* it can hold, to 46
C12_Witness ==
    /\ feed = DROWSY_DISTRACTION_VIDEO
    /\ ret.op = "FocusScorer.calculate_score"
    /\ ret.prev = 67 /\ ret.inst = 0 /\ ret.score = 46 /\ current_score = 46

\* the band the label names
InBand(label, score) ==
    /\ label = "Excellent" <=> score >= 80
    /\ label = "Good"      <=> (60 <= score /\ score < 80)
    /\ label = "Fair"      <=> (40 <= score /\ score < 60)
    /\ label = "Poor"      <=> (20 <= score /\ score < 40)
    /\ label = "Very Poor" <=> score < 20

\* C13: get_score_label gives every integer score in 0..100 the label of
\* exactly the band it lies in (Excellent from 80, Good from 60, Fair from 40,
\* Poor from 20, Very Poor below), and the label in the result of
\* FocusAnalyzer.analyze is the band of the focus score in the same result.
C13_ScoreLabel ==
    /\ ret.op = "FocusScorer.get_score_label" => InBand(ret.label, ret.score)
    /\ ret.op = "FocusAnalyzer.analyze" =>
          /\ ret.score = current_score
          /\ InBand(ret.label, ret.score)

\* C13 witness: analyze has moved the score from 56 up to 60 and labelled it
\* with the band that starts at 60
C13_Witness ==
    /\ ret.op = "FocusAnalyzer.analyze"
    /\ ret.prev = 56 /\ ret.score = 60 /\ ret.label = "Good"

FrameOps == {"FaceTracker.analyze_frame", "FaceTracker.get_attention_state"}

\* the last frame held a face the tracker looked at
FaceSeen ==
    /\ frame.op \in FrameOps
    /\ frame.in.face_detected
    /\ frame.op = "FaceTracker.get_attention_state" => frame.in.read_ok

\* the head pose, and the gaze, of the last frame are beyond the thresholds of
\* the tracker that was given it
PoseOver ==
    IF frame.op = "FaceTracker.analyze_frame"
        THEN Abs(frame.out.yaw) > HEAD_YAW_THRESHOLD
                \/ Abs(frame.out.pitch) > HEAD_PITCH_THRESHOLD
    ELSE Abs(frame.out.yaw) > distraction_head_angle
            \/ Abs(frame.out.pitch) > distraction_head_angle

GazeOver ==
    IF frame.op = "FaceTracker.analyze_frame"
        THEN Abs(frame.in.gaze_h) > GAZE_THRESHOLD
                \/ Abs(frame.in.gaze_v) > GAZE_THRESHOLD
    ELSE frame.in.gaze_deviation > gaze_deviation_threshold

\* C14: for a frame with a detected face both trackers return the first match
\* of: DROWSY if the drowsiness trigger holds, DISTRACTED if |yaw| or |pitch|
\* is above its threshold, DISTRACTED if the gaze deviation is above its
\* threshold, FOCUSED; without a trigger, an estimated yaw of 35 and pitch of 5
\* give DISTRACTED whatever the gaze is.
C14_AttentionPriority ==
    FaceSeen =>
        /\ frame.out.state =
              IF frame.out.is_drowsy THEN "DROWSY"
              ELSE IF PoseOver THEN "DISTRACTED"
              ELSE IF GazeOver THEN "DISTRACTED"
              ELSE "FOCUSED"
        /\ (~frame.out.is_drowsy /\ frame.out.yaw = 35 /\ frame.out.pitch = 5)
              => frame.out.state = "DISTRACTED"

\* C14 witness: src/src's tracker, eyes open, gaze centred, yaw 35 and pitch 5
C14_Witness ==
    /\ frame.op = "FaceTracker.analyze_frame"
    /\ frame.in.face_detected /\ ~frame.out.is_drowsy
    /\ frame.out.yaw = 35 /\ frame.out.pitch = 5
    /\ frame.in.gaze_h = 0 /\ frame.in.gaze_v = 0
    /\ frame.out.state = "DISTRACTED"

\* C15 as stated: once the EAR has been below the threshold on every frame
\* with a face for at least the closure threshold (2 seconds since the first
\* such frame in src/modules, EAR_CONSEC_FRAMES such frames in src/src), the
\* frame is DROWSY whatever its head pose and gaze.
C15_ClosureAtLeast ==
    FaceSeen =>
        /\ (frame.op = "FaceTracker.get_attention_state"
              /\ frame.since # NoTime /\ frame.elapsed >= eye_closed_duration)
              => frame.out.state = "DROWSY"
        /\ (frame.op = "FaceTracker.analyze_frame"
              /\ frame.closed >= EAR_CONSEC_FRAMES)
              => frame.out.state = "DROWSY"

\* C15 amended: the same for a closure that has lasted longer than the
\* closure threshold of src/modules, and from the EAR_CONSEC_FRAMES-th
\* consecutive closed frame of src/src.
C15_ClosureLonger ==
    FaceSeen =>
        /\ (frame.op = "FaceTracker.get_attention_state"
              /\ frame.since # NoTime /\ frame.elapsed > eye_closed_duration)
              => frame.out.state = "DROWSY"
        /\ (frame.op = "FaceTracker.analyze_frame"
              /\ frame.closed >= EAR_CONSEC_FRAMES)
              => frame.out.state = "DROWSY"

\* C15 witness: src/modules' tracker three seconds into its only closure,
\* head turned away
C15_Witness ==
    /\ frame.op = "FaceTracker.get_attention_state"
    /\ frame.in.face_detected /\ frame.in.success /\ frame.in.yaw = 35
    /\ blink_counter = 1 /\ frame.since = 0 /\ frame.elapsed = 3
    /\ frame.out.state = "DROWSY"

\* C16: a frame without a face is DISTRACTED (face_detected False in the
\* result of src/src) and every step that ends in such a frame leaves the
\* closed-frame counter, the blink counter, the blink timestamps and
\* eye_closed_start as they were.
C16_NoFaceFrame ==
    /\ []((frame.op \in FrameOps /\ ~FaceSeen) =>
             frame.out.state = "DISTRACTED" /\ ~frame.out.face_detected)
    /\ [][(frame'.op \in FrameOps /\ ~FaceSeen') => UNCHANGED tracker]_vars

\* C16 witness: src/modules' tracker given a frame without a face two seconds
\* into a closure
C16_Witness ==
    /\ frame.op = "FaceTracker.get_attention_state"
    /\ frame.in.read_ok /\ ~frame.in.face_detected
    /\ frame.out.state = "DISTRACTED"
    /\ blink_counter = 1 /\ eye_closed_start = 0 /\ now = 2

\* C17: every screen class that FocusAnalyzer.analyze receives from the GUI
\* monitoring loop together with a confidence below CONFIDENCE_THRESHOLD is
\* OTHER, whether the trained model or the heuristic produced it.
C17_LowConfidenceIsOther ==
    (ret.op = "FocusAnalyzer.analyze"
       /\ ret.screen_confidence < CONFIDENCE_THRESHOLD)
        => ret.screen = "OTHER"

\* a thread calls the face classifier, the screen classifier, or the decision
\* matrix and the scorer
CallStep ==
    \E i \in DOMAIN threads :
        \/ threads[i] = "top" /\ threads'[i] = "capture"
        \/ threads[i] = "classify" /\ threads'[i] = "analyze"
        \/ threads[i] = "capture" /\ threads'[i] = "update" /\ capture_due
        \/ threads[i] \in {"analyze", "update"} /\ threads'[i] = "top"

\* no thread is within an iteration of its loop
LoopsAtTop == \A i \in DOMAIN threads : threads[i] \in {"top", "done", "dead"}

\* the temporal state, the score state and the published values
CoreState ==
    <<tracker, current_score, score_history, current_face_state,
      current_screen_class, screen_confidence, current_activity,
      current_focus_score, current_score_label>>

\* C18 as stated: while the session is paused the monitoring loop makes no
\* call to a classifier, the decision matrix or the scorer.
C18_PausedNoCalls == [][is_paused => ~CallStep]_vars

\* C18: a paused monitoring loop begins no iteration, so that it ends at most
\* the iteration that was in progress when the pause was set; from then on,
\* while paused, it makes no call to a classifier, the decision matrix or the
\* scorer, and the temporal state, the smoothed score and the published
\* values keep their values until the resume.
C18_PausedLoopSuspended ==
    /\ [][is_paused =>
            ~(\E i \in DOMAIN threads :
                  threads[i] = "top" /\ threads'[i] = "capture")]_vars
    /\ [][(is_paused /\ LoopsAtTop) =>
            (~CallStep /\ UNCHANGED CoreState)]_vars

\* a paused session whose loop waits at the top after an update
C18_Witness ==
    /\ is_running /\ is_paused /\ LoopsAtTop
    /\ \E i \in DOMAIN threads : threads[i] = "top"
    /\ ret.op \in {"FocusAnalyzer.analyze", "StudyFocusMonitor.update_status"}

\* C19: every session begun by start_monitoring, one started after an
\* earlier session was stopped included, begins with the smoothed score at
\* 50 and the consecutive-frame counter at 0, the values its first frame is
\* processed with.
C19_ResetAtStart ==
    [][(app = "gui" /\ ~is_running /\ is_running')
           => (current_score' = 50 /\ ear_frames_below_threshold' = 0)]_vars

\* determine_activity of the running program
determine_activity(face, screen) ==
    IF app = "gui" THEN ActivityEngine_determine_activity(face, screen)
    ELSE DecisionEngine_determine_activity(face, screen)

\* C20: every entry the session logger records, the final entry written by
\* stop() included, carries the activity status that determine_activity
\* gives for the face state and the screen category recorded alongside it.
C20_LoggedActivityRecomputable ==
    logged # NoEntry
        => logged.activity = determine_activity(logged.face, logged.screen)

\* C21: once a stop has set the running flag to False and its join has
\* returned, the monitoring loop has ended: no thread calls a classifier,
\* the decision matrix or the scorer any more, so that what the save after
\* the join reads does not change.
C21_NoCallAfterStop ==
    [][(~is_running /\ ui \in {"idle", "stopped"}) => ~CallStep]_vars

\* the last frame went to src/src's tracker and held a face
GuiFaceSeen == frame.op = "FaceTracker.analyze_frame" /\ frame.in.face_detected

\* C22 as stated: a frame with a face is DROWSY exactly when the run of
\* consecutive frames with a face and an EAR below the threshold that it ends
\* is longer than EAR_CONSEC_FRAMES, and a frame whose EAR is not below the
\* threshold leaves the counter at 0.
C22_RunExceedsCount ==
    GuiFaceSeen =>
        /\ frame.out.state = "DROWSY" <=> frame.closed > EAR_CONSEC_FRAMES
        /\ frame.in.avg_ear >= EAR_THRESHOLD => ear_frames_below_threshold = 0

\* C22 amended: exactly when that run has reached EAR_CONSEC_FRAMES frames,
\* frames without a face neither counted nor ending the run; the counter is
\* the length of the run, 0 after a frame whose EAR is not below the threshold.
C22_RunReachesCount ==
    GuiFaceSeen =>
        /\ frame.out.state = "DROWSY" <=> frame.closed >= EAR_CONSEC_FRAMES
        /\ frame.out.is_drowsy <=> frame.out.state = "DROWSY"
        /\ ear_frames_below_threshold = frame.closed
        /\ frame.in.avg_ear >= EAR_THRESHOLD => ear_frames_below_threshold = 0

\* C22 witness: the third closed frame in a row, reported DROWSY
C22_Witness ==
    /\ GuiFaceSeen
    /\ frame.in.avg_ear < EAR_THRESHOLD
    /\ frame.closed = EAR_CONSEC_FRAMES
    /\ ear_frames_below_threshold = EAR_CONSEC_FRAMES
    /\ frame.out.state = "DROWSY"

\* a step is a call of detect_blinks: the clock stands and the frame is its
DetectBlinksStep == now' = now /\ frame'.op = "FaceTracker.detect_blinks"

\* C23: detect_blinks counts a blink, appends one timestamp and starts the
\* closure only on a frame whose avg EAR is below the threshold while
\* eye_closed_start is None; a frame that continues a closure changes
\* nothing; a frame at or above the threshold clears eye_closed_start and
\* nothing else; the window of timestamps never holds more than 20.
C23_BlinkBookkeeping ==
    /\ [](Len(blink_timestamps) <= BLINK_WINDOW)
    /\ [][DetectBlinksStep =>
            IF frame'.in < ear_threshold /\ eye_closed_start = NoTime
                THEN /\ frame'.out
                     /\ blink_counter' = blink_counter + 1
                     /\ eye_closed_start' = now
                     /\ Len(blink_timestamps') =
                            Min(Len(blink_timestamps) + 1, BLINK_WINDOW)
                     /\ blink_timestamps'[Len(blink_timestamps')] = now
            ELSE IF frame'.in < ear_threshold
                THEN ~frame'.out /\ UNCHANGED tracker
            ELSE /\ ~frame'.out
                 /\ eye_closed_start' = NoTime
                 /\ UNCHANGED <<blink_counter, blink_timestamps>>]_vars

\* C23 witness: the twenty-first closure counted, the window full
C23_Witness ==
    /\ frame.op = "FaceTracker.detect_blinks" /\ frame.out
    /\ blink_counter = BLINK_WINDOW + 1
    /\ Len(blink_timestamps) = BLINK_WINDOW
    /\ eye_closed_start = now

\* the monitoring threads that are alive
AliveThreads == {i \in DOMAIN threads : threads[i] \notin {"done", "dead"}}

\* C24: across any starts, pauses, resumes and stops, a stop whose join timed
\* out and a new start after it included, at most one monitoring thread is
\* alive.
C24_SingleMonitoringThread == Cardinality(AliveThreads) <= 1

\* C25: when solvePnP reports failure on a frame with a face, either tracker
\* goes on with pitch and yaw at 0, so that the head-pose check does not
\* fire on that frame.
C25_PoseFailureIsZero ==
    (FaceSeen /\ ~frame.in.success) =>
        frame.out.pitch = 0 /\ frame.out.yaw = 0 /\ ~PoseOver

\* a thread runs a screen classification
ClassifyStep ==
    \E i \in DOMAIN threads :
        \/ threads[i] = "classify" /\ threads'[i] = "analyze"
        \/ threads[i] = "capture" /\ threads'[i] = "update" /\ capture_due

\* C26: any two consecutive screen classifications are at least the capture
\* interval apart: no classification runs when another one has run within
\* the last interval.
C26_CaptureCadence == [][ClassifyStep => ~captured]_vars

\* C27: in the GUI loop screen_confidence has been assigned whenever a
\* monitoring thread is about to pass it to FocusAnalyzer.analyze, and no
\* monitoring thread has died on the unset attribute.
C27_ConfidenceAssigned ==
    app = "gui" =>
        \A i \in DOMAIN threads :
            /\ threads[i] = "analyze" => screen_confidence # UNSET
            /\ threads[i] # "dead"

C29_NoOvershoot ==
    ret.op = "FocusScorer.calculate_score" =>
        /\ Min(ret.prev, ret.inst) <= ret.score
        /\ ret.score <= Max(ret.prev, ret.inst)
        /\ ret.inst = ret.prev => ret.score = ret.prev
        /\ current_score = ret.score

\* C29 witness: a scorer holding 70 given (FOCUSED, STUDY), whose
\* instantaneous score is 70 as well, returns 70
C29_Witness ==
    /\ ret.op = "FocusScorer.calculate_score"
    /\ ret.face = "FOCUSED" /\ ret.screen = "STUDY"
    /\ ret.prev = 70 /\ ret.inst = 70 /\ ret.score = 70

\* the status the engine that was not called gives the arguments of the call
OtherEngine ==
    IF ret.op = "ActivityEngine.determine_activity"
        THEN DecisionEngine_determine_activity(ret.face, ret.screen)
    ELSE ActivityEngine_determine_activity(ret.face, ret.screen)

\* C30: for every AttentionState and ContentCategory the two engines return
\* the same status name, except for (FOCUSED, OTHER), where
\* DecisionEngine.determine_activity returns NEUTRAL and
\* ActivityEngine.determine_activity returns LOW_FOCUS.
C30_EnginesAgree ==
    (ret.op \in DecideOps /\ ret.face \in AttentionState
                          /\ ret.screen \in ContentCategory) =>
        IF ret.face = "FOCUSED" /\ ret.screen = "OTHER"
            THEN IF ret.op = "DecisionEngine.determine_activity"
                     THEN ret.activity = "NEUTRAL" /\ OtherEngine = "LOW_FOCUS"
                 ELSE ret.activity = "LOW_FOCUS" /\ OtherEngine = "NEUTRAL"
        ELSE ret.activity = OtherEngine

\* C30 witness: DecisionEngine called with the one pair the engines differ on
C30_Witness ==
    /\ ret.op = "DecisionEngine.determine_activity"
    /\ ret.face = "FOCUSED" /\ ret.screen = "OTHER"
    /\ ret.activity = "NEUTRAL"
    /\ OtherEngine = "LOW_FOCUS"


====
